---- MODULE Spec2Model ----
(***************************************************************************)
(* A model of the pls package manager: the acquisition resolver            *)
(* (network.rs), the local package store and install root (commands.rs,    *)
(* utils.rs) and the batch operations update and bundle (commands.rs).     *)
(*                                                                         *)
(* Strings that the code inspects character by character (identifiers,     *)
(* package names, file names) are tuples of one-character strings, so      *)
(* that contains / ends_with / starts_with / split are computed as the     *)
(* code computes them.  Version strings and file contents are only ever    *)
(* compared for equality and are TLA+ strings.                             *)
(***************************************************************************)
EXTENDS Integers, Sequences, FiniteSets, TLC

(***************************************************************************)
(* String primitives (Rust str methods used by the code).                  *)
(***************************************************************************)

\* s.contains(c) for a single character c
Contains(s, c) == \E i \in 1..Len(s) : s[i] = c

\* s.starts_with(pre)
StartsWith(s, pre) ==
    /\ Len(pre) <= Len(s)
    /\ SubSeq(s, 1, Len(pre)) = pre

\* s.ends_with(suf)
EndsWith(s, suf) ==
    /\ Len(suf) <= Len(s)
    /\ SubSeq(s, Len(s) - Len(suf) + 1, Len(s)) = suf

\* s.split(c).last(): the text after the last occurrence of c (all of s if none)
RECURSIVE SplitLast(_, _)
SplitLast(s, c) ==
    IF s = <<>> THEN <<>>
    ELSE IF Contains(s, c) THEN SplitLast(Tail(s), c)
    ELSE s

\* s.split(c).next(): the text before the first occurrence of c (all of s if none)
RECURSIVE SplitFirst(_, _)
SplitFirst(s, c) ==
    IF s = <<>> THEN <<>>
    ELSE IF Head(s) = c THEN <<>>
    ELSE <<Head(s)>> \o SplitFirst(Tail(s), c)

\* s.trim_end_matches(suf): the suffix is stripped repeatedly
RECURSIVE TrimEndMatches(_, _)
TrimEndMatches(s, suf) ==
    IF suf # <<>> /\ EndsWith(s, suf)
    THEN TrimEndMatches(SubSeq(s, 1, Len(s) - Len(suf)), suf)
    ELSE s

\* s.trim(): leading and trailing blanks are stripped
RECURSIVE TrimStart(_)
TrimStart(s) ==
    IF s # <<>> /\ Head(s) = " " THEN TrimStart(Tail(s)) ELSE s

RECURSIVE TrimEnd(_)
TrimEnd(s) ==
    IF s # <<>> /\ s[Len(s)] = " " THEN TrimEnd(SubSeq(s, 1, Len(s) - 1)) ELSE s

Trim(s) == TrimEnd(TrimStart(s))

ExtPls == <<".", "p", "l", "s">>
ExtDeb == <<".", "d", "e", "b">>
PrefixHttp == <<"h", "t", "t", "p">>

(***************************************************************************)
(* Files, archives and manifests.                                          *)
(***************************************************************************)

NoFile == [exists |-> FALSE, lines |-> <<>>]
File(lines) == [exists |-> TRUE, lines |-> lines]

Line(k, v) == [key |-> k, value |-> v]

\* One directory entry: a regular file with its bytes, or something else
Regular(bytes) == [regular |-> TRUE, bytes |-> bytes]
SubDir == [regular |-> FALSE, bytes |-> ""]

EmptyDir == [n \in {} |-> SubDir]

\* A directory tree as an archive packs it: the root manifest and bin/
Tree(info, hasBin, bin) == [info |-> info, hasBin |-> hasBin, bin |-> bin]

EmptyTree == Tree(NoFile, FALSE, EmptyDir)

\* One member of a tar stream: its path below the packed directory (the
\* first component, and the file name under bin/ if any), its kind, its bytes
TarEntry(top, name, isDir, data) ==
    [top |-> top, name |-> name, isDir |-> isDir, data |-> data]

\* The elements of a finite set, one after another
RECURSIVE SeqOf(_)
SeqOf(S) ==
    IF S = {} THEN <<>>
    ELSE LET x == CHOOSE y \in S : TRUE IN <<x>> \o SeqOf(S \ {x})

\* tar::Builder::append_dir_all(".", source_dir): the directory itself, then
\* what is in it, a directory before its content
append_dir_all(tree) ==
    LET names == SeqOf(DOMAIN tree.bin) IN
    <<TarEntry(".", <<>>, TRUE, "")>>
      \o (IF tree.info.exists
          THEN <<TarEntry("info", <<>>, FALSE, tree.info.lines)>> ELSE <<>>)
      \o (IF tree.hasBin THEN <<TarEntry("bin", <<>>, TRUE, "")>> ELSE <<>>)
      \o [i \in 1..Len(names) |->
            TarEntry("bin", names[i], ~tree.bin[names[i]].regular,
                     tree.bin[names[i]].bytes)]

\* utils.rs create_package: the bytes written to output_path
create_package(tree) == [valid |-> TRUE, entries |-> append_dir_all(tree)]

\* tar::Archive::unpack(dest): every member is written below dest, the
\* directories on its way are made, a file that is there is replaced
RECURSIVE unpack(_, _)
unpack(entries, dest) ==
    IF entries = <<>> THEN dest
    ELSE LET e == Head(entries)
             nxt ==
               CASE e.top = "." -> dest
                 [] e.top = "info" -> [dest EXCEPT !.info = File(e.data)]
                 [] e.top = "bin" /\ e.name = <<>> -> [dest EXCEPT !.hasBin = TRUE]
                 [] OTHER ->
                      [dest EXCEPT
                         !.hasBin = TRUE,
                         !.bin = (e.name :> (IF e.isDir THEN SubDir
                                             ELSE Regular(e.data))) @@ @]
         IN unpack(Tail(entries), nxt)

\* The bytes of a .pls file: what create_package makes of a tree, or garbage
Archive(tree) == create_package(tree)
Garbage == [valid |-> FALSE, entries |-> <<>>]

\* What a valid archive unpacks to in an empty directory
TreeOf(archive) == unpack(archive.entries, EmptyTree)

\* PackageInfo::parse_info: the last name/version line wins, depend lines
\* accumulate, other keys are ignored; name and version start empty
RECURSIVE parse_info_from(_, _)
parse_info_from(lines, acc) ==
    IF lines = <<>> THEN acc
    ELSE LET l == Head(lines)
             nxt == CASE l.key = "name" -> [acc EXCEPT !.name = l.value]
                      [] l.key = "version" -> [acc EXCEPT !.version = l.value]
                      [] l.key = "depend" ->
                             [acc EXCEPT !.depend = Append(@, l.value)]
                      [] OTHER -> acc
         IN parse_info_from(Tail(lines), nxt)

parse_info(lines) ==
    parse_info_from(lines, [name |-> <<>>, version |-> "", depend |-> <<>>])

NoPkg == [name |-> <<>>, version |-> "", depend |-> <<>>]

(***************************************************************************)
(* The four build-description grammars (types.rs).  A manifest is the      *)
(* sequence of its lines, each line already cut the way the parser cuts    *)
(* it: a [section] header, a "key = value" pair (value without its         *)
(* quotes), a project(...) call with its tokens, or a line of another      *)
(* shape.  Names on this side are plain strings, "" the empty name.        *)
(* The generic info grammar is parse_info above, over Line(key, value).    *)
(***************************************************************************)

Sec(name) == [t |-> "sec", key |-> name, value |-> ""]
KV(k, v) == [t |-> "kv", key |-> k, value |-> v]
Other == [t |-> "other", key |-> "", value |-> ""]

\* What every parser starts from: String::new(), Vec::new()
EmptyPkg == [name |-> "", version |-> "", depend |-> <<>>]

\* PackageInfo::parse_cargo_toml: name and version count inside [package]
\* only, the keys of [dependencies] are the dependencies
RECURSIVE parse_cargo_from(_, _, _)
parse_cargo_from(lines, section, acc) ==
    IF lines = <<>> THEN acc
    ELSE LET l == Head(lines) IN
         IF l.t = "sec" THEN parse_cargo_from(Tail(lines), l.key, acc)
         ELSE IF section = "package"
         THEN LET nxt == IF l.t # "kv" THEN acc
                         ELSE CASE l.key = "name" -> [acc EXCEPT !.name = l.value]
                                [] l.key = "version" ->
                                       [acc EXCEPT !.version = l.value]
                                [] OTHER -> acc
              IN parse_cargo_from(Tail(lines), section, nxt)
         ELSE IF section = "dependencies"
         THEN LET nxt == IF l.t # "kv" THEN acc
                         ELSE [acc EXCEPT !.depend = Append(@, l.key)]
              IN parse_cargo_from(Tail(lines), section, nxt)
         ELSE parse_cargo_from(Tail(lines), section, acc)

parse_cargo_toml(lines) == parse_cargo_from(lines, "", EmptyPkg)

\* A project(...) call of CMakeLists.txt: its whitespace-separated tokens
Project(parts) == [t |-> "project", parts |-> parts]

\* parts[i].to_uppercase() == "VERSION"
IsVersionKw(tok) == tok \in {"VERSION", "version", "Version"}

\* lines 101-106: the token after the first VERSION that has a successor
VersionToken(parts, old) ==
    LET hits == {i \in 1..Len(parts) : IsVersionKw(parts[i]) /\ i + 1 <= Len(parts)}
    IN IF hits = {} THEN old
       ELSE parts[(CHOOSE i \in hits : \A j \in hits : i <= j) + 1]

\* lines 110-112, 141-143, 179-181
DefaultVersion(pkg) ==
    IF pkg.version = "" THEN [pkg EXCEPT !.version = "0.1.0"] ELSE pkg

RECURSIVE parse_cmake_from(_, _)
parse_cmake_from(lines, acc) ==
    IF lines = <<>> THEN acc
    ELSE LET l == Head(lines)
             nxt == IF l.t # "project" THEN acc
                    ELSE [acc EXCEPT
                            !.name = IF l.parts # <<>> THEN l.parts[1] ELSE @,
                            !.version = VersionToken(l.parts, @)]
         IN parse_cmake_from(Tail(lines), nxt)

parse_cmake(lines) == DefaultVersion(parse_cmake_from(lines, EmptyPkg))

\* A project( call of meson.build: the single-quoted texts and the bare words
\* of the line, in their order
Quoted(text) == [q |-> TRUE, s |-> text]
Word(text) == [q |-> FALSE, s |-> text]
MesonProject(items) == [t |-> "project", items |-> items]

\* The first quoted text at or after position from (0: none)
FirstQuoted(items, from) ==
    LET hits == {i \in from..Len(items) : items[i].q}
    IN IF hits = {} THEN 0 ELSE CHOOSE i \in hits : \A j \in hits : i <= j

\* line.find("version:")
VersionKey(items) ==
    LET hits == {i \in 1..Len(items) : ~items[i].q /\ items[i].s = "version:"}
    IN IF hits = {} THEN 0 ELSE CHOOSE i \in hits : \A j \in hits : i <= j

RECURSIVE parse_meson_from(_, _)
parse_meson_from(lines, acc) ==
    IF lines = <<>> THEN acc
    ELSE LET l == Head(lines)
             nxt ==
               IF l.t # "project" THEN acc
               ELSE LET n == FirstQuoted(l.items, 1)
                        k == VersionKey(l.items)
                        v == IF k = 0 THEN 0 ELSE FirstQuoted(l.items, k + 1)
                    IN [acc EXCEPT
                          !.name = IF n # 0 THEN l.items[n].s ELSE @,
                          !.version = IF v # 0 THEN l.items[v].s ELSE @]
         IN parse_meson_from(Tail(lines), nxt)

parse_meson(lines) == DefaultVersion(parse_meson_from(lines, EmptyPkg))

\* PackageInfo::parse_pls_toml: key = value or key=value, quotes stripped
RECURSIVE parse_pls_from(_, _)
parse_pls_from(lines, acc) ==
    IF lines = <<>> THEN acc
    ELSE LET l == Head(lines)
             nxt == IF l.t # "kv" THEN acc
                    ELSE CASE l.key = "name" -> [acc EXCEPT !.name = l.value]
                           [] l.key = "version" -> [acc EXCEPT !.version = l.value]
                           [] l.key \in {"depend", "deps"} ->
                                  [acc EXCEPT !.depend = Append(@, l.value)]
                           [] OTHER -> acc
         IN parse_pls_from(Tail(lines), nxt)

parse_pls_toml(lines) == DefaultVersion(parse_pls_from(lines, EmptyPkg))

Grammars == {"info", "cargo", "cmake", "meson", "pls"}

\* The parser of each grammar
ParseAs(g, lines) ==
    CASE g = "info" -> parse_info(lines)
      [] g = "cargo" -> parse_cargo_toml(lines)
      [] g = "cmake" -> parse_cmake(lines)
      [] g = "meson" -> parse_meson(lines)
      [] g = "pls" -> parse_pls_toml(lines)

(***************************************************************************)
(* The environment: names, local files, the remote repository, the web.    *)
(***************************************************************************)

sA == <<"a">>
sB == <<"b">>
sC == <<"c">>
sT == <<"t">>
sK == <<"k">>
sE == <<"e">>
sZ == <<"z">>
sTool == <<"t", "o", "o", "l">>
sLocalA == <<".", "/", "a", ".", "p", "l", "s">>
sLocalN == <<".", "/", "n", ".", "p", "l", "s">>
sNoPls == <<"c", ".", "p", "l", "s">>
sUrl == <<"h", "t", "t", "p", ":", "/", "/", "h", "/", "t", "_", "1", ".", "d", "e", "b">>
sUrlEmpty == <<"h", "t", "t", "p", ":", "/", "/", "h", "/", "b", "_", "1", ".", "d", "e", "b">>
sHttpie == <<"h", "t", "t", "p", "i", "e">>
sDeb == <<"t", ".", "d", "e", "b">>

InfoOf(n, v) == File(<<Line("name", n), Line("version", v)>>)

\* a 1.x built locally: one executable named after the package
ArchA1 == Archive(Tree(InfoOf(sA, "1"), TRUE, (sA :> Regular("a1"))))
\* a 2.x as published: a second executable with another file name
ArchA2 ==
    Archive(Tree(InfoOf(sA, "2"), TRUE,
                 (sA :> Regular("a2") @@ sTool :> Regular("tool2"))))
\* b as published: ships a file called a as well, and a subdirectory
ArchB1 ==
    Archive(Tree(InfoOf(sB, "1"), TRUE,
                 (sB :> Regular("b1") @@ sA :> Regular("ba") @@ sC :> SubDir)))

\* published as t, but its manifest names a
ArchTx == Archive(Tree(InfoOf(sA, "9"), TRUE, (sT :> Regular("tx"))))

\* an archive whose info file has no name line, and an empty bin/
ArchN ==
    Archive(Tree(File(<<Line("version", "1")>>), TRUE, EmptyDir))

\* Files on the local disk that an identifier may name
LocalFiles == (sLocalA :> ArchA1 @@ sLocalN :> ArchN)

\* What the repository serves under packages/<name>.pls
RepoArtifact == (sA :> ArchA2 @@ sB :> ArchB1 @@ sT :> ArchTx @@ sC :> Garbage)

Index1 ==
    [packages |-> (sA :> "2" @@ sB :> "1"),
     bundles |-> (sK :> <<sA, sB, sA>> @@ sE :> <<>>)]
Index2 ==
    [packages |-> (sB :> "2" @@ sT :> "1" @@ sC :> "1"),
     bundles |-> (sK :> <<sB, sC>>)]
Indexes == {Index1, Index2}

\* A foreign archive as the converter sees it
DebT ==
    [ar |-> TRUE, dataTar |-> "xz", tarOk |-> TRUE,
     dirs |-> [usr_bin |-> (sT :> Regular("t-deb")),
               usr_local_bin |-> EmptyDir,
               bin |-> EmptyDir]]

\* A foreign archive with nothing but a subdirectory under usr/bin
DebEmpty ==
    [ar |-> TRUE, dataTar |-> "zst", tarOk |-> TRUE,
     dirs |-> [usr_bin |-> (sC :> SubDir),
               usr_local_bin |-> EmptyDir,
               bin |-> EmptyDir]]

\* What an HTTP GET of a URL answers; anything else is a transport error
Web ==
    (sUrl :> [success |-> TRUE, body |-> DebT]
       @@ sUrlEmpty :> [success |-> TRUE, body |-> DebEmpty])

\* Identifiers handed to install, bundle names, names handed to remove
Identifiers ==
    {sA, sB, sC, sT, sLocalA, sLocalN, sNoPls, sUrl, sUrlEmpty, sHttpie, sDeb}
BundleNames == {sK, sE, sZ}
RemoveNames == {sA, sB, sT, <<>>}

(***************************************************************************)
(* Acquisition: utils.rs resolve_package_path, network.rs fetch_index,     *)
(* download_package, download_deb, resolve_or_download.                    *)
(*                                                                         *)
(* A path is a local file the user named or a file of the cache directory. *)
(* The answers of the network and of the scratch disk are arguments (net): *)
(*   net.index   fetch_index gets the index                                *)
(*   net.dl      the GET of packages/<name>.pls gets the bytes             *)
(*   net.web     the GET of a foreign archive gets an answer               *)
(*   net.stage   fs::copy into the converter's staging bin/ works          *)
(***************************************************************************)

NetOutcomes ==
    [index : BOOLEAN, dl : BOOLEAN, web : BOOLEAN, stage : BOOLEAN]

NoPath == [kind |-> "none", at |-> <<>>]
LocalPath(input) == [kind |-> "local", at |-> input]
CachePath(name) == [kind |-> "cache", at |-> name]

Ok(path) == [ok |-> TRUE, path |-> path, err |-> "none"]
Err(tag) == [ok |-> FALSE, path |-> NoPath, err |-> tag]

\* Which calls one resolution made (its observable trace)
Calls(conv, fetched, gotIndex, downloaded) ==
    [conv |-> conv,               \* download_deb was called
     fetched |-> fetched,         \* fetch_index was called
     gotIndex |-> gotIndex,       \* and returned an index
     downloaded |-> downloaded]   \* download_package was called
NoCalls == Calls(FALSE, FALSE, FALSE, FALSE)

Resolved(ret, cache, calls) == [ret |-> ret, cache |-> cache, calls |-> calls]

\* input.contains('/') || input.ends_with(".pls")
LooksLikePath(input) == Contains(input, "/") \/ EndsWith(input, ExtPls)

\* Fault: the existence of the path is not checked
resolve_package_path_unchecked(input) ==
    IF LooksLikePath(input) THEN LocalPath(input) ELSE NoPath

resolve_package_path(input) ==
    IF LooksLikePath(input) /\ input \in DOMAIN LocalFiles
    THEN LocalPath(input)
    ELSE NoPath

\* name.ends_with(".deb") || name.starts_with("http")
IsForeign(name) == EndsWith(name, ExtDeb) \/ StartsWith(name, PrefixHttp)

\* split('/').last().trim_end_matches(".deb").split('_').next()
DebPkgName(name) ==
    SplitFirst(TrimEndMatches(SplitLast(name, "/"), ExtDeb), "_")

RegularFiles(dir) == [n \in {m \in DOMAIN dir : dir[m].regular} |-> dir[n]]

\* The scan of usr/bin, usr/local/bin, bin in that order: a later copy of
\* the same file name replaces the earlier one; a failed copy is ignored
StagedBin(deb, stageOk) ==
    IF stageOk
    THEN RegularFiles(deb.dirs.bin) @@ RegularFiles(deb.dirs.usr_local_bin)
             @@ RegularFiles(deb.dirs.usr_bin)
    ELSE EmptyDir

FoundBinary(deb) ==
    \E d \in {deb.dirs.usr_bin, deb.dirs.usr_local_bin, deb.dirs.bin} :
        DOMAIN RegularFiles(d) # {}

\* Fault: the archive is made whether or not a binary was found
download_deb_unchecked(url, name, cache, net) ==
    IF ~(net.web /\ url \in DOMAIN Web) THEN [ret |-> Err("network"), cache |-> cache]
    ELSE IF ~Web[url].success THEN [ret |-> Err("failed to download"), cache |-> cache]
    ELSE LET deb == Web[url].body IN
         IF ~deb.ar THEN [ret |-> Err("failed to extract .deb"), cache |-> cache]
         ELSE IF deb.dataTar = "none"
              THEN [ret |-> Err("couldn't find data.tar in .deb"), cache |-> cache]
         ELSE IF ~deb.tarOk
              THEN [ret |-> Err("failed to extract data.tar"), cache |-> cache]
         ELSE LET built == Tree(InfoOf(name, "1.0.0"), TRUE,
                                StagedBin(deb, net.stage))
              IN [ret |-> Ok(CachePath(name)),
                  cache |-> (name :> Archive(built)) @@ cache]

\* download_deb: the result and the cache directory afterwards
download_deb(url, name, cache, net) ==
    IF ~(net.web /\ url \in DOMAIN Web) THEN [ret |-> Err("network"), cache |-> cache]
    ELSE IF ~Web[url].success THEN [ret |-> Err("failed to download"), cache |-> cache]
    ELSE LET deb == Web[url].body IN
         IF ~deb.ar THEN [ret |-> Err("failed to extract .deb"), cache |-> cache]
         ELSE IF deb.dataTar = "none"
              THEN [ret |-> Err("couldn't find data.tar in .deb"), cache |-> cache]
         ELSE IF ~deb.tarOk
              THEN [ret |-> Err("failed to extract data.tar"), cache |-> cache]
         ELSE IF ~FoundBinary(deb)
              THEN [ret |-> Err("no binaries found in .deb"), cache |-> cache]
         ELSE LET built == Tree(InfoOf(name, "1.0.0"), TRUE,
                                StagedBin(deb, net.stage))
              IN [ret |-> Ok(CachePath(name)),
                  cache |-> (name :> Archive(built)) @@ cache]

\* The body of the answer to GET packages/<name>.pls; the status is not
\* looked at, so the error page of a missing artifact is a body too
Served(name) ==
    IF name \in DOMAIN RepoArtifact THEN RepoArtifact[name] ELSE Garbage

\* Fault: a cached copy, once written, is kept
download_package_keep(name, cache, net) ==
    IF ~net.dl
    THEN [ret |-> Err("network"), cache |-> cache]
    ELSE [ret |-> Ok(CachePath(name)),
          cache |-> cache @@ (name :> Served(Trim(name)))]

\* download_package: the bytes served for the trimmed name are written to
\* the cache file of the name as given
download_package(name, cache, net) ==
    IF ~net.dl
    THEN [ret |-> Err("network"), cache |-> cache]
    ELSE [ret |-> Ok(CachePath(name)),
          cache |-> (name :> Served(Trim(name))) @@ cache]

resolve_or_download(name, cache, index, net) ==
    IF resolve_package_path(name) # NoPath
    THEN Resolved(Ok(resolve_package_path(name)), cache, NoCalls)
    ELSE IF IsForeign(name)
    THEN LET r == download_deb(name, DebPkgName(name), cache, net)
         IN Resolved(r.ret, r.cache, Calls(TRUE, FALSE, FALSE, FALSE))
    ELSE IF ~net.index
    THEN Resolved(Err("network"), cache, Calls(FALSE, TRUE, FALSE, FALSE))
    ELSE IF name \in DOMAIN index.packages
    THEN LET r == download_package(name, cache, net)
         IN Resolved(r.ret, r.cache, Calls(FALSE, TRUE, TRUE, TRUE))
    ELSE Resolved(Err("not found in repo"), cache, Calls(FALSE, TRUE, TRUE, FALSE))

(***************************************************************************)
(* State.                                                                  *)
(***************************************************************************)

VARIABLES
    index,      \* the repository's index.json
    dbDir,      \* DB_DIR exists
    store,      \* DB_DIR/<name>/ -> its info file (NoFile when missing)
    rootInfo,   \* the file DB_DIR/info
    usrBinDir,  \* ROOT/usr/bin exists
    usrBin,     \* ROOT/usr/bin/<file> -> bytes, and the package that put it
    temp,       \* /tmp/pls-extract
    cache,      \* CACHE_DIR/<name>.pls -> bytes
    inv,        \* per invocation of the tool: position, locals, output
    project,    \* the project directory handed to add
    add,        \* the invocation of add: position, locals, output
    staging,    \* /tmp/pls-build
    packagesDir, \* the output directory: <name>.pls -> bytes
    parse       \* one call of a manifest parser: its input and its result

vars ==
    <<index, dbDir, store, rootInfo, usrBinDir, usrBin, temp, cache, inv,
      project, add, staging, packagesDir, parse>>

\* What install, remove, list, update and bundle never touch
pubVars == <<project, add, staging, packagesDir, parse>>

\* What add never touches
instVars ==
    <<index, dbDir, store, rootInfo, usrBinDir, usrBin, temp, cache, inv, parse>>

Procs == {"p1", "p2"}

NoTemp == [exists |-> FALSE, tree |-> Tree(NoFile, FALSE, EmptyDir)]
\* Fault: the directory is made and nothing is put in it
TempOfNothing(tree) == [exists |-> TRUE, tree |-> Tree(NoFile, FALSE, EmptyDir)]
TempOf(tree) == [exists |-> TRUE, tree |-> tree]

Installed(bytes, by) == [bytes |-> bytes, by |-> by]

NoReport == [kind |-> "none", count |-> 0, failed |-> <<>>]
NoSnap == [store |-> EmptyDir, usrBin |-> EmptyDir]

\* An invocation that runs nothing
Idle ==
    [cmd |-> "none", pc |-> "idle",
     bundle |-> <<>>,               \* bundle_name
     arg |-> <<>>,                  \* package_input / package_name
     path |-> NoPath,               \* package_path
     calls |-> NoCalls,             \* the calls resolve_or_download made
     resolved |-> Err("none"),      \* what resolve_or_download returned
     pkg |-> NoPkg,                 \* pkg
     notice |-> FALSE,              \* "already installed, reinstalling" printed
     todo |-> {},                   \* entries of bin/ not yet visited
     list |-> <<>>,                 \* the batch: to_update / packages
     rest |-> <<>>,                 \* the part of the batch not yet attempted
     okCount |-> 0,                 \* updated / installed
     failed |-> <<>>,               \* failed
     log |-> <<>>,                  \* the attempts made, with their outcome
     seen |-> <<>>,                 \* installed, as cmd_update read it
     snap |-> NoSnap,               \* store and binaries when the plan was made
     report |-> NoReport,           \* the summary printed by a batch
     ret |-> Err("none")]           \* the value the command returned

\* A manifest file of the project directory
Absent == [exists |-> FALSE, readable |-> FALSE, lines |-> <<>>]
Unreadable == [exists |-> TRUE, readable |-> FALSE, lines |-> <<>>]
Manifest(lines) == [exists |-> TRUE, readable |-> TRUE, lines |-> lines]

NoProject ==
    [cargo |-> Absent, cmake |-> Absent, meson |-> Absent, pls |-> Absent,
     bins |-> {}]

\* A file of the project directory that may be the binary
BinPath(dir, file) == [dir |-> dir, file |-> file]
NoBinPath == BinPath("", "")

\* An invocation of add that runs nothing
AddIdle ==
    [pc |-> "idle",
     draft |-> FALSE,              \* is_draft
     ptype |-> "none",             \* project_type
     pkg |-> EmptyPkg,             \* pkg
     bin_path |-> NoBinPath,       \* bin_path / binary_path
     existed |-> FALSE,            \* bin_path existed when it was looked for
     invoked |-> <<>>,             \* the external commands run so far
     ret |-> Err("none")]          \* the value the command returned

NoParse == [pc |-> "none", grammar |-> "none", content |-> <<>>, pkg |-> EmptyPkg]

\* Nothing of the publishing side is in use
PubInit ==
    /\ project = NoProject
    /\ add = AddIdle
    /\ staging = NoTemp
    /\ packagesDir = EmptyDir
    /\ parse = NoParse

\* Nothing installed, nothing cached, no invocation running
StoreInit ==
    /\ dbDir = FALSE
    /\ store = EmptyDir
    /\ rootInfo = NoFile
    /\ usrBinDir = FALSE
    /\ usrBin = EmptyDir
    /\ temp = NoTemp
    /\ cache = EmptyDir
    /\ inv = [p \in Procs |-> Idle]

\* DB_DIR and the cache directory do not exist before the first install
Init ==
    /\ index \in Indexes
    /\ StoreInit
    /\ PubInit

\* utils.rs is_installed: DB_DIR/<name> exists (DB_DIR itself for "")
is_installed(name) ==
    IF name = <<>> THEN dbDir ELSE name \in DOMAIN store

Without(f, name) == [n \in DOMAIN f \ {name} |-> f[n]]

\* What a path names at the time it is opened
ArchiveAt(path) ==
    IF path.kind = "local" THEN LocalFiles[path.at] ELSE cache[path.at]

OkUnit == Ok(NoPath)

\* The locals of invocation p change; install, remove, list, update and
\* bundle leave the project directory and the publishing side alone
Put(p, rec) ==
    /\ inv' = [inv EXCEPT ![p] = rec]
    /\ UNCHANGED pubVars

(***************************************************************************)
(* commands.rs cmd_install, one action per step.  Where cmd_install        *)
(* returns, a lone install ends the invocation and an install made by a    *)
(* batch goes back to the batch's loop.                                    *)
(***************************************************************************)

\* Fault: the first failure breaks the loop
BatchRecordAbort(me, res) ==
    [me EXCEPT !.pc = "loop",
               !.rest = IF res.ok THEN @ ELSE <<>>,
               !.log = Append(@, [name |-> me.arg, ok |-> res.ok,
                                                 err |-> res.err]),
               !.okCount = IF res.ok THEN @ + 1 ELSE @,
               !.failed = IF res.ok THEN @ ELSE Append(@, me.arg)]

\* The match on cmd_install's result in the loops of cmd_update/cmd_bundle
BatchRecord(me, res) ==
    [me EXCEPT !.pc = "loop",
               !.log = Append(@, [name |-> me.arg, ok |-> res.ok,
                                                 err |-> res.err]),
               !.okCount = IF res.ok THEN @ + 1 ELSE @,
               !.failed = IF res.ok THEN @ ELSE Append(@, me.arg)]

Return(me, res) ==
    IF me.cmd = "install"
    THEN [me EXCEPT !.pc = "done", !.ret = res]
    ELSE BatchRecord(me, res)

\* Fault: the error is dropped and the install goes on to record the package
FailIgnored(me, tag) == [me EXCEPT !.pc = "db_dir"]

\* The ? on a step's result: cmd_install returns the error there and then
Fail(me, tag) == Return(me, Err(tag))

\* main: pls install <identifier>
Install(p, input) ==
    /\ inv[p].pc = "idle"
    /\ Put(p, [Idle EXCEPT !.cmd = "install", !.pc = "resolve", !.arg = input])
    /\ UNCHANGED <<index, dbDir, store, rootInfo, usrBinDir, usrBin, temp, cache>>

\* line 13
Resolve(p) ==
    /\ inv[p].pc = "resolve"
    /\ \E net \in NetOutcomes :
         LET me == inv[p]
             r == resolve_or_download(me.arg, cache, index, net)
             seen == [me EXCEPT !.calls = r.calls, !.resolved = r.ret]
         IN /\ cache' = r.cache
            /\ IF r.ret.ok
               THEN Put(p, [seen EXCEPT !.pc = "extract", !.path = r.ret.path])
               ELSE Put(p, Fail(seen, r.ret.err))
    /\ UNCHANGED <<index, dbDir, store, rootInfo, usrBinDir, usrBin, temp>>

\* Fault: dest is not emptied first
extract_package_merge(archive, dest) ==
    IF archive.valid THEN TempOf(unpack(archive.entries, dest.tree))
    ELSE TempOf(dest.tree)

\* utils.rs extract_package: dest is removed and recreated, then the archive
\* is unpacked into it
extract_package(archive, dest) ==
    IF archive.valid THEN TempOf(unpack(archive.entries, EmptyTree))
    ELSE TempOf(Tree(NoFile, FALSE, EmptyDir))

\* lines 15-18
Extract(p) ==
    /\ inv[p].pc = "extract"
    /\ LET me == inv[p]
           archive == ArchiveAt(me.path)
       IN /\ temp' = extract_package(archive, temp)
          /\ IF archive.valid
             THEN Put(p, [me EXCEPT !.pc = "read_info"])
             ELSE Put(p, Fail(me, "couldn't unpack that thing"))
    /\ UNCHANGED <<index, dbDir, store, rootInfo, usrBinDir, usrBin, cache>>

\* lines 20-21
ReadInfo(p) ==
    /\ inv[p].pc = "read_info"
    /\ LET me == inv[p] IN
       IF temp.exists /\ temp.tree.info.exists
       THEN Put(p, [me EXCEPT !.pc = "bin_dir",
                              !.pkg = parse_info(temp.tree.info.lines)])
       ELSE Put(p, Fail(me, "package seems broken, no info file found"))
    /\ UNCHANGED <<index, dbDir, store, rootInfo, usrBinDir, usrBin, temp, cache>>

\* lines 23-32
BinDir(p) ==
    /\ inv[p].pc = "bin_dir"
    /\ usrBinDir' = TRUE
    /\ LET me == [inv[p] EXCEPT !.notice = is_installed(inv[p].pkg.name)] IN
       IF temp.exists /\ temp.tree.hasBin
       THEN Put(p, [me EXCEPT !.todo = DOMAIN temp.tree.bin,
                              !.pc = IF DOMAIN temp.tree.bin = {}
                                     THEN "db_dir" ELSE "copy"])
       ELSE Put(p, Fail(me, "couldn't read bin dir"))
    /\ UNCHANGED <<index, dbDir, store, rootInfo, usrBin, temp, cache>>

\* The body of the loop of lines 34-43 for one entry of bin/, when the copy
\* works: the destination is replaced
CopyInto(bin, file, bytes, pkgName) ==
    (file :> Installed(bytes, pkgName)) @@ bin

\* lines 34-43, one entry per step, in the order read_dir yields them
Copy(p) ==
    /\ inv[p].pc = "copy"
    /\ \E file \in inv[p].todo, copyOk \in BOOLEAN :
         LET me == [inv[p] EXCEPT !.todo = @ \ {file}]
             isFile == /\ temp.exists /\ temp.tree.hasBin
                       /\ file \in DOMAIN temp.tree.bin
                       /\ temp.tree.bin[file].regular
             next == [me EXCEPT !.pc = IF me.todo = {} THEN "db_dir" ELSE "copy"]
         IN IF ~isFile
            THEN /\ Put(p, next)
                 /\ UNCHANGED usrBin
            ELSE IF copyOk
            THEN /\ usrBin' = CopyInto(usrBin, file, temp.tree.bin[file].bytes,
                                       me.pkg.name)
                 /\ Put(p, next)
            ELSE /\ usrBin' = Without(usrBin, file)
                 /\ Put(p, Fail(me, "couldn't copy"))
    /\ UNCHANGED <<index, dbDir, store, rootInfo, usrBinDir, temp, cache>>

\* Fault: the entry directory is made with an empty manifest file in it
CreateEntryDirStub(st, name) ==
    IF name = <<>> \/ name \in DOMAIN st THEN st ELSE (name :> File(<<>>)) @@ st

\* create_dir_all(DB_DIR/<name>): an existing directory is kept as it is
CreateEntryDir(st, name) ==
    IF name = <<>> \/ name \in DOMAIN st THEN st ELSE (name :> NoFile) @@ st

\* lines 45-46
DbDir(p) ==
    /\ inv[p].pc = "db_dir"
    /\ dbDir' = TRUE
    /\ store' = CreateEntryDir(store, inv[p].pkg.name)
    /\ Put(p, [inv[p] EXCEPT !.pc = "db_info"])
    /\ UNCHANGED <<index, rootInfo, usrBinDir, usrBin, temp, cache>>

\* Fault: a manifest already in the entry is kept
RecordInfoKeep(st, name, info) ==
    IF st[name].exists THEN st ELSE [st EXCEPT ![name] = info]

\* fs::copy(temp/info, DB_DIR/<name>/info): the entry's manifest is replaced
RecordInfo(st, name, info) == [st EXCEPT ![name] = info]

\* lines 47-48
DbInfo(p) ==
    /\ inv[p].pc = "db_info"
    /\ LET me == inv[p]
           name == me.pkg.name
       IN IF ~(temp.exists /\ temp.tree.info.exists)
             \/ (name # <<>> /\ name \notin DOMAIN store)
             \/ (name = <<>> /\ ~dbDir)
          THEN /\ Put(p, Fail(me, "couldn't save package info"))
               /\ UNCHANGED <<store, rootInfo>>
          ELSE /\ Put(p, [me EXCEPT !.pc = "cleanup"])
               /\ IF name = <<>>
                  THEN rootInfo' = temp.tree.info /\ UNCHANGED store
                  ELSE store' = RecordInfo(store, name, temp.tree.info)
                       /\ UNCHANGED rootInfo
    /\ UNCHANGED <<index, dbDir, usrBinDir, usrBin, temp, cache>>

\* lines 50-53
Cleanup(p) ==
    /\ inv[p].pc = "cleanup"
    /\ temp' = NoTemp
    /\ Put(p, Return(inv[p], OkUnit))
    /\ UNCHANGED <<index, dbDir, store, rootInfo, usrBinDir, usrBin, cache>>

(***************************************************************************)
(* commands.rs cmd_remove.                                                 *)
(***************************************************************************)

\* lines 61-64: the file of the install root that remove deletes
RemoveBinary(bin, name) == Without(bin, name)

\* pls remove <name>
Remove(p, name) ==
    /\ inv[p].pc = "idle"
    /\ LET me == [Idle EXCEPT !.cmd = "remove", !.pc = "done", !.arg = name] IN
       IF ~is_installed(name)
       THEN /\ Put(p, [me EXCEPT !.ret = Err("isn't even installed")])
            /\ UNCHANGED <<dbDir, store, rootInfo, usrBin>>
       ELSE IF name = <<>> /\ usrBinDir
       \* ROOT/usr/bin/ is a directory: remove_file fails on it
       THEN /\ Put(p, [me EXCEPT !.ret = Err("couldn't delete binary")])
            /\ UNCHANGED <<dbDir, store, rootInfo, usrBin>>
       ELSE IF name = <<>>
       \* DB_DIR/ is the store itself
       THEN /\ dbDir' = FALSE
            /\ store' = EmptyDir
            /\ rootInfo' = NoFile
            /\ UNCHANGED usrBin
            /\ Put(p, [me EXCEPT !.ret = OkUnit])
       ELSE /\ usrBin' = RemoveBinary(usrBin, name)
            /\ store' = Without(store, name)
            /\ UNCHANGED <<dbDir, rootInfo>>
            /\ Put(p, [me EXCEPT !.ret = OkUnit])
    /\ UNCHANGED <<index, usrBinDir, temp, cache>>

(***************************************************************************)
(* commands.rs cmd_update and cmd_bundle.                                  *)
(***************************************************************************)

\* The orders in which read_dir may yield the entries of a directory
Orders(S) ==
    {q \in [1..Cardinality(S) -> S] : \A x \in S : \E i \in DOMAIN q : q[i] = x}

\* lines 400-407: the entries whose info file can be read, as (name, version)
\* of the manifest
InstalledOf(st, order) ==
    LET valid == SelectSeq(order, LAMBDA n : st[n].exists)
    IN [i \in 1..Len(valid) |->
          [name |-> parse_info(st[valid[i]].lines).name,
           version |-> parse_info(st[valid[i]].lines).version]]

\* Fault: every installed name the index lists is planned
to_update_listed(installed, idx) ==
    LET hits == SelectSeq(installed, LAMBDA e : e.name \in DOMAIN idx.packages)
    IN [i \in 1..Len(hits) |-> hits[i].name]

\* lines 414-423
to_update(installed, idx) ==
    LET hits == SelectSeq(installed,
                    LAMBDA e : /\ e.name \in DOMAIN idx.packages
                               /\ idx.packages[e.name] # e.version)
    IN [i \in 1..Len(hits) |-> hits[i].name]

\* Fault: the summary never mentions failures
BatchReportQuiet(okCount, failed) ==
    [kind |-> "success", count |-> okCount, failed |-> <<>>]

\* lines 447-452 and 492-502: the summary a batch prints
BatchReport(okCount, failed) ==
    IF failed = <<>>
    THEN [kind |-> "success", count |-> okCount, failed |-> <<>>]
    ELSE [kind |-> "partial", count |-> okCount, failed |-> failed]

\* lines 454 and 504: the value a finished batch returns
BatchResult(failed) == OkUnit

\* pls update, lines 388-430
Update(p) ==
    /\ inv[p].pc = "idle"
    /\ LET me == [Idle EXCEPT !.cmd = "update", !.pc = "done"] IN
       IF ~dbDir
       THEN Put(p, [me EXCEPT !.ret = OkUnit])
       ELSE \E netOk \in BOOLEAN, order \in Orders(DOMAIN store) :
              LET installed == InstalledOf(store, order)
                  plan == to_update(installed, index)
                  read == [me EXCEPT !.seen = installed,
                                     !.snap = [store |-> store,
                                               usrBin |-> usrBin]]
              IN IF ~netOk THEN Put(p, [me EXCEPT !.ret = Err("network")])
                 ELSE IF installed = <<>> \/ plan = <<>>
                 THEN Put(p, [read EXCEPT !.ret = OkUnit])
                 ELSE Put(p, [read EXCEPT !.pc = "loop", !.list = plan,
                                          !.rest = plan])
    /\ UNCHANGED <<index, dbDir, store, rootInfo, usrBinDir, usrBin, temp, cache>>

\* Fault: a name listed twice is installed once
RECURSIVE Dedup(_, _)
Dedup(list, seen) ==
    IF list = <<>> THEN <<>>
    ELSE IF Head(list) \in seen THEN Dedup(Tail(list), seen)
    ELSE <<Head(list)>> \o Dedup(Tail(list), seen \cup {Head(list)})

BundlePackagesDedup(idx, bundle_name) == Dedup(idx.bundles[bundle_name], {})

\* lines 462-465: the list the index gives for the bundle, as it is
BundlePackages(idx, bundle_name) == idx.bundles[bundle_name]

\* pls bundle <name>, lines 457-475
Bundle(p, bundle_name) ==
    /\ inv[p].pc = "idle"
    /\ \E netOk \in BOOLEAN :
         LET me == [Idle EXCEPT !.cmd = "bundle", !.pc = "done",
                                !.bundle = bundle_name]
             packages == BundlePackages(index, bundle_name)
         IN
         IF ~netOk THEN Put(p, [me EXCEPT !.ret = Err("network")])
         ELSE IF bundle_name \notin DOMAIN index.bundles
         THEN Put(p, [me EXCEPT !.ret = Err("bundle not found in repo")])
         ELSE IF packages = <<>>
         THEN Put(p, [me EXCEPT !.ret = Err("bundle is empty")])
         ELSE Put(p, [me EXCEPT !.pc = "loop", !.list = packages,
                                !.rest = packages])
    /\ UNCHANGED <<index, dbDir, store, rootInfo, usrBinDir, usrBin, temp, cache>>

\* The head of the loops (lines 435, 480) and what follows them
Loop(p) ==
    /\ inv[p].pc = "loop"
    /\ LET me == inv[p] IN
       IF me.rest = <<>>
       THEN Put(p, [me EXCEPT !.pc = "done",
                              !.report = BatchReport(me.okCount, me.failed),
                              !.ret = BatchResult(me.failed)])
       ELSE Put(p, [me EXCEPT !.pc = "resolve",
                              !.arg = Head(me.rest),
                              !.rest = Tail(me.rest),
                              !.path = NoPath,
                              !.calls = NoCalls,
                              !.resolved = Err("none"),
                              !.pkg = NoPkg,
                              !.notice = FALSE,
                              !.todo = {}])
    /\ UNCHANGED <<index, dbDir, store, rootInfo, usrBinDir, usrBin, temp, cache>>

(***************************************************************************)
(* commands.rs cmd_list.                                                   *)
(***************************************************************************)

\* lines 102-110: the entries of DB_DIR under which a file info can be read.
\* The file DB_DIR/info is an entry too, but DB_DIR/info/info cannot be read.
Listed(st) == {n \in DOMAIN st : st[n].exists}

\* lines 101-116: count, and which of the two closing lines is printed
ListReport(st) ==
    [kind |-> IF Cardinality(Listed(st)) = 0 THEN "nothing" ELSE "list",
     count |-> Cardinality(Listed(st)),
     failed |-> <<>>]

\* pls list
List(p) ==
    /\ inv[p].pc = "idle"
    /\ LET me == [Idle EXCEPT !.cmd = "list", !.pc = "done", !.ret = OkUnit] IN
       IF ~dbDir
       THEN Put(p, [me EXCEPT !.report = [kind |-> "nothing", count |-> 0,
                                          failed |-> <<>>]])
       ELSE Put(p, [me EXCEPT !.report = ListReport(store)])
    /\ UNCHANGED <<index, dbDir, store, rootInfo, usrBinDir, usrBin, temp, cache>>

\* main returns: the process of the invocation ends
Exit(p) ==
    /\ inv[p].pc = "done"
    /\ Put(p, Idle)
    /\ UNCHANGED <<index, dbDir, store, rootInfo, usrBinDir, usrBin, temp, cache>>

(***************************************************************************)
(* One invocation of the tool at a time.                                   *)
(***************************************************************************)

Step(p) ==
    \/ \E input \in Identifiers : Install(p, input)
    \/ Resolve(p)
    \/ Extract(p)
    \/ ReadInfo(p)
    \/ BinDir(p)
    \/ Copy(p)
    \/ DbDir(p)
    \/ DbInfo(p)
    \/ Cleanup(p)
    \/ \E name \in RemoveNames : Remove(p, name)
    \/ Update(p)
    \/ \E b \in BundleNames : Bundle(p, b)
    \/ Loop(p)
    \/ List(p)
    \/ Exit(p)

Next == Step("p1")

Spec == Init /\ [][Next]_vars

(***************************************************************************)
(* Two invocations of install at the same time.  Nothing in the code locks *)
(* the store, the install root or the scratch directory, so the steps of   *)
(* the two interleave freely.  Each invocation runs one install.           *)
(***************************************************************************)

ConcIdentifiers == {sLocalA, sLocalN, sB}

ConcStep(p) ==
    \/ \E input \in ConcIdentifiers : Install(p, input)
    \/ Resolve(p)
    \/ Extract(p)
    \/ ReadInfo(p)
    \/ BinDir(p)
    \/ Copy(p)
    \/ DbDir(p)
    \/ DbInfo(p)
    \/ Cleanup(p)

NextConc == \E p \in Procs : ConcStep(p)

SpecConc == Init /\ [][NextConc]_vars

(***************************************************************************)
(* One invocation at a time, any of which may be killed between two of its *)
(* steps: what it wrote so far stays on the disk.                          *)
(***************************************************************************)

\* The process of the invocation is terminated
Crash(p) ==
    /\ inv[p].pc \notin {"idle", "done"}
    /\ Put(p, Idle)
    /\ UNCHANGED <<index, dbDir, store, rootInfo, usrBinDir, usrBin, temp, cache>>

CrashIdentifiers == {sLocalA, sA, sB}

CrashStep(p) ==
    \/ \E input \in CrashIdentifiers : Install(p, input)
    \/ Resolve(p)
    \/ Extract(p)
    \/ ReadInfo(p)
    \/ BinDir(p)
    \/ Copy(p)
    \/ DbDir(p)
    \/ DbInfo(p)
    \/ Cleanup(p)
    \/ Update(p)
    \/ Loop(p)
    \/ List(p)
    \/ Exit(p)
    \/ Crash(p)

NextCrash == CrashStep("p1")

SpecCrash == Init /\ [][NextCrash]_vars

(***************************************************************************)
(* Listing a store whose content is arbitrary: the entries may have been   *)
(* left by interrupted or concurrent installs, or put there by hand.       *)
(***************************************************************************)

\* The manifest files an entry may hold
EntryContents ==
    {NoFile, InfoOf(sA, "1"), InfoOf(sB, "2"), File(<<Line("version", "1")>>),
     File(<<>>)}

EntryNames == {sA, sB, sT}

StoreContents ==
    UNION {[names -> EntryContents] : names \in SUBSET EntryNames}

InitList ==
    /\ index \in Indexes
    /\ store \in StoreContents
    /\ dbDir \in (IF store = EmptyDir THEN BOOLEAN ELSE {TRUE})
    /\ rootInfo = NoFile
    /\ usrBinDir = FALSE
    /\ usrBin = EmptyDir
    /\ temp = NoTemp
    /\ cache = EmptyDir
    /\ inv = [p \in Procs |-> Idle]
    /\ PubInit

NextList == List("p1") \/ Exit("p1")

SpecList == InitList /\ [][NextList]_vars

(***************************************************************************)
(* commands.rs detect_project and cmd_add, on a project directory whose    *)
(* content is arbitrary.                                                   *)
(***************************************************************************)

\* A candidate of detect_project: the file exists, can be read, and its
\* parse gives a name
Candidate(file, pkg) == file.exists /\ file.readable /\ pkg.name # ""

Detected(ptype, pkg) == [found |-> TRUE, ptype |-> ptype, pkg |-> pkg]
NotDetected == [found |-> FALSE, ptype |-> "none", pkg |-> EmptyPkg]

\* Fault: the first file that exists decides
detect_project_first(proj) ==
    IF proj.cargo.exists
    THEN IF Candidate(proj.cargo, parse_cargo_toml(proj.cargo.lines))
         THEN Detected("Rust", parse_cargo_toml(proj.cargo.lines))
         ELSE NotDetected
    ELSE IF proj.cmake.exists
    THEN IF Candidate(proj.cmake, parse_cmake(proj.cmake.lines))
         THEN Detected("CMake", parse_cmake(proj.cmake.lines))
         ELSE NotDetected
    ELSE IF proj.meson.exists
    THEN IF Candidate(proj.meson, parse_meson(proj.meson.lines))
         THEN Detected("Meson", parse_meson(proj.meson.lines))
         ELSE NotDetected
    ELSE IF Candidate(proj.pls, parse_pls_toml(proj.pls.lines))
    THEN Detected("PlsToml", parse_pls_toml(proj.pls.lines))
    ELSE NotDetected

\* lines 127-169
detect_project(proj) ==
    IF Candidate(proj.cargo, parse_cargo_toml(proj.cargo.lines))
    THEN Detected("Rust", parse_cargo_toml(proj.cargo.lines))
    ELSE IF Candidate(proj.cmake, parse_cmake(proj.cmake.lines))
    THEN Detected("CMake", parse_cmake(proj.cmake.lines))
    ELSE IF Candidate(proj.meson, parse_meson(proj.meson.lines))
    THEN Detected("Meson", parse_meson(proj.meson.lines))
    ELSE IF Candidate(proj.pls, parse_pls_toml(proj.pls.lines))
    THEN Detected("PlsToml", parse_pls_toml(proj.pls.lines))
    ELSE NotDetected

\* lines 177-181, 201-202, 230-231: where the build leaves the binary
ConventionalPath(ptype, is_draft, name) ==
    CASE ptype = "Rust" ->
           BinPath(IF is_draft THEN "target/debug" ELSE "target/release", name)
      [] ptype = "CMake" -> BinPath("build", name)
      [] ptype = "Meson" -> BinPath("builddir", name)

\* lines 259-266: the last binary = value line of pls.toml
RECURSIVE BinaryField(_, _)
BinaryField(lines, acc) ==
    IF lines = <<>> THEN acc
    ELSE LET l == Head(lines)
         IN BinaryField(Tail(lines),
                        IF l.t = "kv" /\ l.key = "binary" THEN l.value ELSE acc)

\* The external commands of each ecosystem, in the order they are run
BuildTools(ptype) ==
    CASE ptype = "Rust" -> <<"cargo">>
      [] ptype = "CMake" -> <<"cmake", "make">>
      [] ptype = "Meson" -> <<"meson", "ninja">>
      [] OTHER -> <<>>

\* Fault: the build is run whether or not the binary is there
NeedsBuildAlways(bins, bin_path) == TRUE

\* lines 183, 204, 233: !Path::new(&bin_path).exists()
NeedsBuild(bins, bin_path) == bin_path \notin bins

AddFail(tag) == add' = [add EXCEPT !.pc = "done", !.ret = Err(tag)]

\* pls add <dir> [--draft], lines 171-173
Add(is_draft) ==
    /\ add.pc = "idle"
    /\ LET d == detect_project(project)
           me == [AddIdle EXCEPT !.draft = is_draft]
       IN IF ~d.found
          THEN add' = [me EXCEPT !.pc = "done",
                                 !.ret = Err("dunno what project this is")]
          ELSE add' = [me EXCEPT !.pc = "locate", !.ptype = d.ptype,
                                 !.pkg = d.pkg]
    /\ UNCHANGED <<project, staging, packagesDir>>
    /\ UNCHANGED instVars

\* lines 175-183, 200-204, 229-233, 256-271: the path of the binary, and
\* whether a build is needed
Locate ==
    /\ add.pc = "locate"
    /\ IF add.ptype = "PlsToml"
       THEN LET binary == BinaryField(project.pls.lines, "") IN
            IF ~project.pls.readable THEN AddFail("couldn't read pls.toml")
            ELSE IF binary = "" THEN AddFail("pls.toml needs 'binary' field")
            ELSE add' = [add EXCEPT !.pc = "check",
                                    !.bin_path = BinPath(".", binary),
                                    !.existed = BinPath(".", binary) \in project.bins]
       ELSE LET bp == ConventionalPath(add.ptype, add.draft, add.pkg.name) IN
            add' = [add EXCEPT !.bin_path = bp,
                               !.existed = bp \in project.bins,
                               !.pc = IF NeedsBuild(project.bins, bp)
                                      THEN "build" ELSE "check"]
    /\ UNCHANGED <<project, staging, packagesDir>>
    /\ UNCHANGED instVars

\* lines 184-196, 205-225, 234-252: the next external command of the build.
\* It cannot be started, exits non-zero, or exits zero; a command that ran
\* may have left the binary at its path.
Build ==
    /\ add.pc = "build"
    /\ LET tools == BuildTools(add.ptype)
           n == Len(add.invoked) + 1
       IN \E dirOk \in BOOLEAN, outcome \in {"noexec", "fail", "ok"},
             produced \in BOOLEAN :
            IF add.ptype = "CMake" /\ n = 1 /\ ~dirOk
            THEN AddFail("couldn't create build dir") /\ UNCHANGED project
            ELSE LET ran == [add EXCEPT !.invoked = Append(@, tools[n])] IN
                 /\ project' =
                      IF outcome # "noexec" /\ produced
                      THEN [project EXCEPT !.bins = @ \cup {add.bin_path}]
                      ELSE project
                 /\ add' =
                      CASE outcome = "noexec" ->
                             [ran EXCEPT !.pc = "done", !.ret = Err("tool failed")]
                        [] outcome = "fail" ->
                             [ran EXCEPT !.pc = "done", !.ret = Err("build failed")]
                        [] outcome = "ok" ->
                             [ran EXCEPT !.pc = IF n = Len(tools)
                                                THEN "check" ELSE "build"]
    /\ UNCHANGED <<staging, packagesDir>>
    /\ UNCHANGED instVars

\* lines 274-276
Check ==
    /\ add.pc = "check"
    /\ IF add.bin_path \in project.bins
       THEN add' = [add EXCEPT !.pc = "stage"]
       ELSE AddFail("binary not found")
    /\ UNCHANGED <<project, staging, packagesDir>>
    /\ UNCHANGED instVars

\* What lines 278-288 leave in /tmp/pls-build
Staged(pkg) ==
    Tree(InfoOf(pkg.name, pkg.version), TRUE, (pkg.name :> Regular("built")))

\* lines 278-288: the scratch directory is replaced; the binary is copied
\* under the package's name, the info file is written
Stage ==
    /\ add.pc = "stage"
    /\ \E copyOk \in BOOLEAN :
         IF copyOk /\ add.bin_path \in project.bins
         THEN /\ staging' = TempOf(Staged(add.pkg))
              /\ add' = [add EXCEPT !.pc = "pack"]
         ELSE /\ staging' = TempOf(Tree(NoFile, TRUE, EmptyDir))
              /\ AddFail("couldn't copy binary")
    /\ UNCHANGED <<project, packagesDir>>
    /\ UNCHANGED instVars

\* lines 290-302
Pack ==
    /\ add.pc = "pack"
    /\ \E writeOk \in BOOLEAN :
         IF writeOk
         THEN /\ packagesDir' =
                   (add.pkg.name :> create_package(staging.tree)) @@ packagesDir
              /\ staging' = NoTemp
              /\ add' = [add EXCEPT !.pc = "done", !.ret = OkUnit]
         ELSE /\ AddFail("couldn't create package")
              /\ UNCHANGED <<staging, packagesDir>>
    /\ UNCHANGED project
    /\ UNCHANGED instVars

\* main returns
AddExit ==
    /\ add.pc = "done"
    /\ add' = AddIdle
    /\ UNCHANGED <<project, staging, packagesDir>>
    /\ UNCHANGED instVars

\* The contents each of the four files may have
CargoFiles ==
    {Absent, Unreadable,
     Manifest(<<Sec("package"), KV("name", "c"), KV("version", "1.2.0"),
                Sec("dependencies"), KV("serde", "1")>>),
     Manifest(<<Sec("package"), KV("name", "c")>>),
     Manifest(<<Sec("lib"), KV("name", "c")>>)}
CMakeFiles ==
    {Absent,
     Manifest(<<Other, Project(<<"m", "VERSION", "2.0">>)>>),
     Manifest(<<Project(<<"m">>)>>),
     Manifest(<<Other>>)}
MesonFiles ==
    {Absent,
     Manifest(<<MesonProject(<<Quoted("s"), Quoted("c"), Word("version:"),
                               Quoted("3.0")>>)>>),
     Manifest(<<MesonProject(<<Quoted("s"), Quoted("c")>>)>>),
     Manifest(<<Other>>)}
PlsFiles ==
    {Absent,
     Manifest(<<KV("name", "p"), KV("version", "4.0"), KV("binary", "out/p")>>),
     Manifest(<<KV("name", "p"), KV("binary", "out/p")>>),
     Manifest(<<KV("name", "p")>>),
     Manifest(<<KV("binary", "out/p")>>)}

\* The binaries that may be there before add is run
CandidateBins ==
    {BinPath("target/debug", "c"), BinPath("target/release", "c"),
     BinPath("build", "m"), BinPath("builddir", "s"), BinPath(".", "out/p")}

InitAdd ==
    /\ index = Index1
    /\ StoreInit
    /\ project \in [cargo : CargoFiles, cmake : CMakeFiles, meson : MesonFiles,
                      pls : PlsFiles, bins : SUBSET CandidateBins]
    /\ add = AddIdle
    /\ staging = NoTemp
    /\ packagesDir = EmptyDir
    /\ parse = NoParse

NextAdd ==
    \/ \E is_draft \in BOOLEAN : Add(is_draft)
    \/ Locate
    \/ Build
    \/ Check
    \/ Stage
    \/ Pack
    \/ AddExit

SpecAdd == InitAdd /\ [][NextAdd]_vars

(***************************************************************************)
(* utils.rs create_package and extract_package on an arbitrary directory   *)
(* tree and an arbitrary content of the destination directory.             *)
(***************************************************************************)

\* What a file name under bin/ may be
CodecEntries == {Regular("x"), Regular("y"), SubDir}

CodecBins ==
    UNION {[names -> CodecEntries] : names \in SUBSET {sA, sTool}}

\* The trees that are packed
CodecTrees ==
    {Tree(info, TRUE, bin) :
       info \in {NoFile, File(<<>>), InfoOf(sA, "1")}, bin \in CodecBins}
      \cup {Tree(info, FALSE, EmptyDir) : info \in {NoFile, InfoOf(sA, "1")}}

\* What the destination holds before
CodecPriors ==
    {NoTemp,
     TempOf(EmptyTree),
     TempOf(Tree(InfoOf(sB, "0"), TRUE,
                 (sA :> Regular("old") @@ sT :> Regular("old")))),
     TempOf(Tree(NoFile, TRUE, (sA :> SubDir @@ sTool :> Regular("x"))))}

sF == <<"f">>

InitCodec ==
    /\ index = Index1
    /\ dbDir = FALSE
    /\ store = EmptyDir
    /\ rootInfo = NoFile
    /\ usrBinDir = FALSE
    /\ usrBin = EmptyDir
    /\ cache = EmptyDir
    /\ inv = [p \in Procs |-> Idle]
    /\ temp \in CodecPriors
    /\ staging \in {TempOf(t) : t \in CodecTrees}
    /\ project = NoProject
    /\ add = AddIdle
    /\ packagesDir = EmptyDir
    /\ parse = NoParse

\* create_package(source_dir, f)
CodecPack ==
    /\ sF \notin DOMAIN packagesDir
    /\ packagesDir' = (sF :> create_package(staging.tree))
    /\ UNCHANGED <<index, dbDir, store, rootInfo, usrBinDir, usrBin, temp,
                   cache, inv, project, add, staging, parse>>

\* extract_package(f, destDir)
CodecUnpack ==
    /\ sF \in DOMAIN packagesDir
    /\ temp' = extract_package(packagesDir[sF], temp)
    /\ UNCHANGED <<index, dbDir, store, rootInfo, usrBinDir, usrBin, cache,
                   inv, project, add, staging, packagesDir, parse>>

NextCodec == CodecPack \/ CodecUnpack

SpecCodec == InitCodec /\ [][NextCodec]_vars

(***************************************************************************)
(* One call of a manifest parser on a manifest of up to MaxLines lines.    *)
(***************************************************************************)

MaxLines == 3

SeqsUpTo(S, n) == UNION {[1..k -> S] : k \in 0..n}

\* The lines a manifest of each grammar is made of
LinesOf(g) ==
    CASE g = "info" ->
           {Line("name", sA), Line("version", "1"), Line("depend", "x"),
            Line("license", "x")}
      [] g = "cargo" ->
           {Sec("package"), Sec("dependencies"), KV("name", "c"),
            KV("version", "1.2.0")}
      [] g = "cmake" ->
           {Project(<<"m">>), Project(<<"m", "VERSION", "2.0">>),
            Project(<<"m", "VERSION">>), Project(<<>>), Other}
      [] g = "meson" ->
           {MesonProject(<<Quoted("s"), Quoted("c")>>),
            MesonProject(<<Quoted("s"), Word("version:"), Quoted("3.0")>>),
            MesonProject(<<Word("version:"), Quoted("3.0")>>), Other}
      [] g = "pls" ->
           {KV("name", "p"), KV("version", "4.0"), KV("binary", "out/p"), Other}

InitParse ==
    /\ index = Index1
    /\ StoreInit
    /\ project = NoProject
    /\ add = AddIdle
    /\ staging = NoTemp
    /\ packagesDir = EmptyDir
    /\ \E g \in Grammars :
         \E content \in SeqsUpTo(LinesOf(g), MaxLines) :
           parse = [pc |-> "ready", grammar |-> g, content |-> content,
                    pkg |-> EmptyPkg]

\* The parser of the grammar is applied to the manifest
Parse ==
    /\ parse.pc = "ready"
    /\ parse' = [parse EXCEPT !.pc = "parsed",
                              !.pkg = ParseAs(parse.grammar, parse.content)]
    /\ UNCHANGED <<index, dbDir, store, rootInfo, usrBinDir, usrBin, temp,
                   cache, inv, project, add, staging, packagesDir>>

NextParse == Parse

SpecParse == InitParse /\ [][NextParse]_vars

(***************************************************************************)
(* Properties.                                                             *)
(***************************************************************************)

Range(s) == {s[i] : i \in DOMAIN s}
NamesOf(log) == [i \in 1..Len(log) |-> log[i].name]
FailedIn(log) == NamesOf(SelectSeq(log, LAMBDA a : ~a.ok))
SucceededIn(log) == Len(SelectSeq(log, LAMBDA a : a.ok))

\* cmd_install is running (between its call and its return)
Installing(me) == me.pc \notin {"idle", "loop", "done"}
\* The names a batch has handed to cmd_install so far
Started(me) ==
    Range(NamesOf(me.log)) \cup (IF Installing(me) THEN {me.arg} ELSE {})
IsBatch(me) == me.cmd \in {"update", "bundle"}
\* A batch whose loop ran and ended
BatchDone(me) == IsBatch(me) /\ me.pc = "done" /\ me.list # <<>>
\* resolve_or_download has returned for me.arg
ResolveDone(me) == me.resolved # Err("none")

\* C1: in a batch every package of the list is attempted exactly once, one
\* after another in list order; a failure does not stop the later attempts;
\* at the end succeeded + failed = n and failed holds exactly the names whose
\* install failed, in list order.
C1_BatchSequential ==
    \A p \in Procs :
      LET me == inv[p]
          done == Len(me.log)
          busy == IF Installing(me) THEN 1 ELSE 0
      IN IsBatch(me) =>
           /\ done + busy + Len(me.rest) = Len(me.list)
           /\ NamesOf(me.log) = SubSeq(me.list, 1, done)
           /\ Installing(me) => me.arg = me.list[done + 1]
           /\ me.rest = SubSeq(me.list, done + busy + 1, Len(me.list))
           /\ me.failed = FailedIn(me.log)
           /\ me.okCount = SucceededIn(me.log)
           /\ me.pc = "done" =>
                /\ NamesOf(me.log) = me.list
                /\ me.okCount + Len(me.failed) = Len(me.list)
                /\ me.list # <<>> =>
                     /\ me.report.count = me.okCount
                     /\ me.report.failed = me.failed

\* C1 witness: a bundle of three whose second install failed and whose third
\* was still attempted and succeeded
C1_Witness ==
    \E p \in Procs :
      /\ BatchDone(inv[p])
      /\ inv[p].cmd = "bundle"
      /\ Len(inv[p].list) = 3
      /\ inv[p].failed = <<sB>>
      /\ inv[p].okCount = 2
      /\ inv[p].log[3].ok

\* C2 as stated: the value a finished batch returns is a failure exactly when
\* at least one package failed, and plain success exactly when none did.
C2_ReturnsPartialFailure ==
    \A p \in Procs :
      BatchDone(inv[p]) =>
        (inv[p].ret.ok <=> \A i \in DOMAIN inv[p].log : inv[p].log[i].ok)

\* C2 amended: a finished batch always returns Ok; the summary it prints is
\* the partial-failure one, with the failed names, exactly when at least one
\* package failed, and the success one exactly when none failed.
C2_ReportsPartialFailure ==
    \A p \in Procs :
      LET me == inv[p] IN
      BatchDone(me) =>
        /\ me.ret = OkUnit
        /\ me.report.kind = "partial" <=> \E i \in DOMAIN me.log : ~me.log[i].ok
        /\ me.report.kind = "success" <=> \A i \in DOMAIN me.log : me.log[i].ok
        /\ me.report.failed = FailedIn(me.log)
        /\ me.report.count = SucceededIn(me.log)

\* C2 witness: an update that ended with a failed package
C2_Witness ==
    \E p \in Procs :
      /\ BatchDone(inv[p])
      /\ inv[p].cmd = "update"
      /\ inv[p].failed # <<>>
      /\ inv[p].report.kind = "partial"
      /\ inv[p].ret.ok

\* The installed (name, version) pairs of a store: the manifests that exist
LocalPairs(st) ==
    {[name |-> parse_info(st[d].lines).name,
      version |-> parse_info(st[d].lines).version] :
        d \in {x \in DOMAIN st : st[x].exists}}

\* The names the index lists with a version other than the local one
Outdated(st, idx) ==
    {e.name : e \in {x \in LocalPairs(st) :
                        /\ x.name \in DOMAIN idx.packages
                        /\ idx.packages[x.name] # x.version}}

C3_PlanExact(me) == Range(me.list) = Outdated(me.snap.store, index)

\* The installed names the index does not list, when the plan was made
Unlisted(me) == DOMAIN me.snap.store \ DOMAIN index.packages

EntryKept(me, n) == n \in DOMAIN store /\ store[n] = me.snap.store[n]
BinaryKept(me, f) == f \in DOMAIN usrBin /\ usrBin[f] = me.snap.usrBin[f]
BinariesOf(me, n) == {f \in DOMAIN me.snap.usrBin : me.snap.usrBin[f].by = n}

\* C3 as stated: the plan of cmd_update holds a name exactly when the index
\* lists it with a version string other than the local one; a name the index
\* does not list is never in the plan, and the update leaves its store entry
\* and its binaries as they were.
C3_UnlistedUntouched ==
    \A p \in Procs :
      LET me == inv[p] IN
      me.cmd = "update" =>
        /\ C3_PlanExact(me)
        /\ \A n \in Unlisted(me) :
             /\ n \notin Range(me.list)
             /\ EntryKept(me, n)
             /\ \A f \in BinariesOf(me, n) : BinaryKept(me, f)

\* What the repository's archive for a planned name records and ships
ManifestNameServed(q) == parse_info(TreeOf(Served(Trim(q))).info.lines).name
FilesServed(q) == DOMAIN RegularFiles(TreeOf(Served(Trim(q))).bin)

\* C3 amended: the plan is as stated, a name the index does not list is never
\* in the plan and never handed to cmd_install by the update; its store entry
\* and binaries stay as they were unless an archive the update installs for a
\* planned name carries that name in its manifest, or ships a file with the
\* file name of one of its binaries.
C3_UnlistedNotPlanned ==
    \A p \in Procs :
      LET me == inv[p] IN
      me.cmd = "update" =>
        /\ C3_PlanExact(me)
        /\ \A n \in Unlisted(me) :
             /\ n \notin Range(me.list)
             /\ n \notin Started(me)
             /\ \/ EntryKept(me, n)
                \/ \E q \in Started(me) : ManifestNameServed(q) = n
             /\ \A f \in BinariesOf(me, n) :
                  \/ BinaryKept(me, f)
                  \/ \E q \in Started(me) : f \in FilesServed(q)

\* C3 witness: an update that planned and installed something while the store
\* held a name the index does not list and a listed name that was up to date
C3_Witness ==
    \E p \in Procs :
      LET me == inv[p] IN
      /\ me.cmd = "update" /\ me.pc = "done" /\ me.list # <<>>
      /\ me.okCount > 0
      /\ \E n \in Unlisted(me) :
           /\ EntryKept(me, n)
           /\ BinariesOf(me, n) # {}
           /\ \A f \in BinariesOf(me, n) : BinaryKept(me, f)
      /\ \E e \in LocalPairs(me.snap.store) :
           /\ e.name \in DOMAIN index.packages
           /\ e.name \notin Range(me.list)

\* C4 as stated: for a path-like identifier resolve_or_download returns the
\* path when it exists, and otherwise fails without calling the converter
\* and without fetching the index.
C4_PathOrNotFound ==
    \A p \in Procs :
      LET me == inv[p] IN
      (ResolveDone(me) /\ LooksLikePath(me.arg)) =>
        IF me.arg \in DOMAIN LocalFiles
        THEN me.resolved = Ok(LocalPath(me.arg))
        ELSE ~me.resolved.ok /\ ~me.calls.conv /\ ~me.calls.fetched

\* C4 amended: for a path-like identifier resolve_or_download returns the
\* path when it exists, calling neither the converter nor the index; when the
\* path does not exist the resolution goes on with the later steps: the
\* converter is called if the identifier ends with ".deb" or starts with
\* "http", otherwise the index is fetched, and NotFound is the result only
\* when the fetched index does not list the identifier.
C4_PathOrFallThrough ==
    \A p \in Procs :
      LET me == inv[p] IN
      (ResolveDone(me) /\ LooksLikePath(me.arg)) =>
        IF me.arg \in DOMAIN LocalFiles
        THEN me.resolved = Ok(LocalPath(me.arg)) /\ me.calls = NoCalls
        ELSE /\ me.calls.conv <=>
                  (EndsWith(me.arg, ExtDeb) \/ StartsWith(me.arg, PrefixHttp))
             /\ me.calls.fetched <=> ~me.calls.conv
             /\ me.resolved.ok => me.resolved.path.kind = "cache"
             /\ me.resolved.err = "not found in repo" <=>
                  (me.calls.gotIndex /\ me.arg \notin DOMAIN index.packages)

\* C4 witness: a URL, which is path-like and names no local file, was handed
\* to the converter and resolved to the converted archive
C4_Witness ==
    \E p \in Procs :
      LET me == inv[p] IN
      /\ ResolveDone(me) /\ LooksLikePath(me.arg)
      /\ me.arg \notin DOMAIN LocalFiles
      /\ me.calls.conv /\ me.resolved.ok

\* A URL as the spec means it
IsUrl(s) ==
    \/ StartsWith(s, <<"h", "t", "t", "p", ":", "/", "/">>)
    \/ StartsWith(s, <<"h", "t", "t", "p", "s", ":", "/", "/">>)

\* C5: an identifier that is not path-like is handed to the converter exactly
\* when it is a URL or ends with ".deb"; the index is then never fetched; a
\* plain package name is never handed to the converter.
C5_ConverterOnlyForForeign ==
    \A p \in Procs :
      LET me == inv[p] IN
      (ResolveDone(me) /\ ~LooksLikePath(me.arg)) =>
        /\ me.calls.conv <=> (IsUrl(me.arg) \/ EndsWith(me.arg, ExtDeb))
        /\ me.calls.conv => ~me.calls.fetched

\* C6: when the index step is reached and the fetched index lists the name,
\* a download that succeeds yields the cache file keyed by that name, holding
\* the bytes served and replacing any earlier copy, no other cache file being
\* touched (a download that fails changes nothing); when the fetched index
\* does not list the name the result is NotFound and the cache is unchanged.
C6_IndexStep ==
    [][\A p \in Procs :
         (inv[p].pc = "resolve" /\ inv'[p].pc # "resolve"
            /\ inv'[p].calls.gotIndex) =>
           LET n == inv[p].arg
               r == inv'[p].resolved
           IN IF n \in DOMAIN index.packages
              THEN /\ inv'[p].calls.downloaded
                   /\ r.ok =>
                        /\ r.path = CachePath(n)
                        /\ DOMAIN cache' = DOMAIN cache \cup {n}
                        /\ cache'[n] = Served(Trim(n))
                        /\ \A m \in DOMAIN cache \ {n} : cache'[m] = cache[m]
                   /\ ~r.ok => cache' = cache
              ELSE /\ ~inv'[p].calls.downloaded
                   /\ r = Err("not found in repo")
                   /\ cache' = cache]_vars

\* C6 witness: t was resolved through the index into the cache file of t,
\* which held the converter's archive for t before (installed from it: the
\* binary it shipped is in the install root)
C6_Witness ==
    \E p \in Procs :
      LET me == inv[p] IN
      /\ me.pc = "extract" /\ me.calls.downloaded
      /\ me.resolved = Ok(CachePath(sT))
      /\ cache[sT] = Served(sT)
      /\ sT \in DOMAIN usrBin /\ usrBin[sT].bytes = "t-deb"

\* C7: cmd_bundle fails, without attempting any install, when the bundle is
\* absent from index.bundles or maps to an empty list; otherwise the packages
\* are attempted in exactly the order of the bundle's list, nothing reordered,
\* dropped or merged.
C7_BundleResolution ==
    \A p \in Procs :
      LET me == inv[p] IN
      me.cmd = "bundle" =>
        IF me.bundle \notin DOMAIN index.bundles
        THEN /\ me.pc = "done" /\ me.log = <<>> /\ me.list = <<>>
             /\ me.ret \in {Err("bundle not found in repo"), Err("network")}
        ELSE IF index.bundles[me.bundle] = <<>>
        THEN /\ me.pc = "done" /\ me.log = <<>> /\ me.list = <<>>
             /\ me.ret \in {Err("bundle is empty"), Err("network")}
        ELSE \/ me.pc = "done" /\ me.log = <<>> /\ me.ret = Err("network")
             \/ /\ me.list = index.bundles[me.bundle]
                /\ NamesOf(me.log)
                     \o (IF Installing(me) THEN <<me.arg>> ELSE <<>>)
                     \o me.rest = index.bundles[me.bundle]
                /\ me.pc = "done" => NamesOf(me.log) = index.bundles[me.bundle]

\* C7 witness: a bundle that lists a twice ran to its end; a was attempted
\* twice, around b
C7_Witness ==
    \E p \in Procs :
      /\ inv[p].cmd = "bundle" /\ inv[p].pc = "done"
      /\ NamesOf(inv[p].log) = <<sA, sB, sA>>

\* C8: when the name of the package being installed already has a store
\* entry, creating the entry directory and saving the manifest do not fail;
\* afterwards the store holds the one entry of that name, its manifest equal
\* to the manifest of the archive being installed, and no other entry changed.
C8_Reinstall ==
    [][\A p \in Procs :
         LET me == inv[p]
             name == me.pkg.name
         IN (me.notice /\ name # <<>> /\ me.pc \in {"db_dir", "db_info"}
               /\ inv'[p] # me) =>
              /\ me.pc = "db_dir" => inv'[p].pc = "db_info" /\ store' = store
              /\ me.pc = "db_info" =>
                   /\ inv'[p].pc = "cleanup"
                   /\ DOMAIN store' = DOMAIN store
                   /\ store'[name] = TreeOf(ArchiveAt(me.path)).info
                   /\ \A m \in DOMAIN store \ {name} : store'[m] = store[m]]_vars

\* C8 witness: a 1 was installed over the entry that an install of a 2 left
C8_Witness ==
    \E p \in Procs :
      LET me == inv[p] IN
      /\ me.pc = "cleanup" /\ me.notice
      /\ me.pkg.name = sA /\ me.pkg.version = "1"
      /\ sTool \in DOMAIN usrBin
      /\ store[sA] = TreeOf(ArchA1).info

\* C9: remove(name) on a name with no store entry fails NotFound and changes
\* neither the store nor the install root; remove(name) on a name with an
\* entry, when it succeeds, leaves is_installed(name) false and every other
\* entry unchanged.
C9_Remove ==
    [][\A p \in Procs :
         (inv[p].pc = "idle" /\ inv'[p].cmd = "remove") =>
           LET n == inv'[p].arg IN
           /\ n \notin DOMAIN store =>
                /\ inv'[p].ret = Err("isn't even installed")
                /\ <<dbDir, store, rootInfo, usrBinDir, usrBin>>'
                     = <<dbDir, store, rootInfo, usrBinDir, usrBin>>
           /\ (n \in DOMAIN store /\ inv'[p].ret.ok) =>
                /\ n \notin DOMAIN store'
                /\ DOMAIN store' = DOMAIN store \ {n}
                /\ \A m \in DOMAIN store' : store'[m] = store[m]]_vars

\* C10: once remove(p) has succeeded, no executable that an install of p
\* copied into the install root's binary directory is left there, whatever
\* its file name.
C10_LockStep ==
    [][\A p \in Procs :
         (inv[p].pc = "idle" /\ inv'[p].cmd = "remove" /\ inv'[p].ret.ok) =>
           \A f \in DOMAIN usrBin' : usrBin'[f].by # inv'[p].arg]_vars

\* The entries whose manifest file exists and gives a name
ValidEntries(st) ==
    {n \in DOMAIN st : st[n].exists /\ parse_info(st[n].lines).name # <<>>}

\* C11: for any store content cmd_list succeeds, and the count it reports is
\* the number of entry directories whose manifest file exists and parses to a
\* manifest with a non-empty name; an entry whose manifest is missing or does
\* not parse is skipped and not counted.
C11_ListCountsValid ==
    \A p \in Procs :
      LET me == inv[p] IN
      (me.cmd = "list" /\ me.pc = "done") =>
        /\ me.ret = OkUnit
        /\ me.report.count = Cardinality(ValidEntries(store))

\* A store entry whose manifest file gives no name
NamelessEntry == \E n \in DOMAIN store : store[n].exists /\ n \notin ValidEntries(store)

\* C12: while a package that had no store entry is being installed, its entry
\* is absent until the entry directory is created, then a directory without a
\* manifest until the manifest is copied, then a directory with the complete
\* manifest of the archive; killing the install after any step leaves the
\* store as that step left it; listing and the scan of update pass over a
\* directory without a manifest.
C12_CrashConsistent ==
    [][\A p \in Procs :
         LET me == inv[p]
             n == me.pkg.name
         IN /\ (me.pc \in {"copy", "db_dir", "db_info", "cleanup"}
                   /\ ~me.notice /\ n # <<>>) =>
                 /\ me.pc \in {"copy", "db_dir"} => n \notin DOMAIN store
                 /\ me.pc = "db_info" => n \in DOMAIN store /\ store[n] = NoFile
                 /\ me.pc = "cleanup" =>
                      /\ n \in DOMAIN store
                      /\ store[n] = TreeOf(ArchiveAt(me.path)).info
                 /\ inv'[p].pc = "idle" => store' = store
            /\ (me.pc = "idle" /\ inv'[p].cmd = "list") =>
                 inv'[p].report.count =
                   Cardinality({m \in DOMAIN store : store[m] # NoFile})
            /\ (me.pc = "idle" /\ inv'[p].cmd = "update"
                   /\ inv'[p].ret # Err("network")) =>
                 Len(inv'[p].seen) =
                   Cardinality({m \in DOMAIN store : store[m] # NoFile})]_vars

\* C12 witness: a listing that counted one package while the store held two
\* entries, one of them the directory without a manifest that a killed
\* install left
C12_Witness ==
    \E p \in Procs :
      /\ inv[p].cmd = "list" /\ inv[p].pc = "done"
      /\ inv[p].report.count = 1
      /\ Cardinality(DOMAIN store) = 2
      /\ \E n \in DOMAIN store : store[n] = NoFile

\* The four candidates in the fixed order, each with its parse
CandidateList(proj) ==
    <<[file |-> proj.cargo, ptype |-> "Rust",
       pkg |-> parse_cargo_toml(proj.cargo.lines)],
      [file |-> proj.cmake, ptype |-> "CMake",
       pkg |-> parse_cmake(proj.cmake.lines)],
      [file |-> proj.meson, ptype |-> "Meson",
       pkg |-> parse_meson(proj.meson.lines)],
      [file |-> proj.pls, ptype |-> "PlsToml",
       pkg |-> parse_pls_toml(proj.pls.lines)]>>

Qualifies(c) == c.file.exists /\ c.file.readable /\ c.pkg.name # ""

\* C13: detect_project returns the first of Cargo.toml, CMakeLists.txt,
\* meson.build, pls.toml that exists and parses to a non-empty name; a file
\* that exists and parses to an empty name is passed over; detection fails
\* exactly when no file qualifies.
C13_DetectionPriority ==
    add.pc # "idle" =>
      LET cs == CandidateList(project)
          ok == {i \in 1..4 : Qualifies(cs[i])}
      IN IF ok = {}
         THEN /\ add.pc = "done" /\ add.ptype = "none"
              /\ add.ret = Err("dunno what project this is")
         ELSE LET first == CHOOSE i \in ok : \A j \in ok : i <= j IN
              /\ add.ptype = cs[first].ptype
              /\ add.pkg = cs[first].pkg
              /\ add.ret # Err("dunno what project this is")

\* C13 witness: Cargo.toml exists and gives no name, CMakeLists.txt exists and
\* gives no name, meson.build and pls.toml both qualify: Meson was detected
C13_Witness ==
    /\ add.pc = "locate" /\ add.ptype = "Meson"
    /\ project.cargo.exists /\ project.cargo.readable
    /\ project.cmake.exists
    /\ Qualifies(CandidateList(project)[4])

\* What the manifest itself gives, before any default is applied
RawParse(g, lines) ==
    CASE g = "info" -> parse_info(lines)
      [] g = "cargo" -> parse_cargo_from(lines, "", EmptyPkg)
      [] g = "cmake" -> parse_cmake_from(lines, EmptyPkg)
      [] g = "meson" -> parse_meson_from(lines, EmptyPkg)
      [] g = "pls" -> parse_pls_from(lines, EmptyPkg)

NoName(g) == IF g = "info" THEN <<>> ELSE ""

\* C14: in each of the five grammars, a manifest that gives a name and no
\* version parses to version "0.1.0", and a manifest that gives a name and a
\* version parses to that version.
C14_VersionDefault ==
    parse.pc = "parsed" =>
      LET raw == RawParse(parse.grammar, parse.content) IN
      raw.name # NoName(parse.grammar) =>
        /\ parse.pkg.name = raw.name
        /\ parse.pkg.version =
             IF raw.version = "" THEN "0.1.0" ELSE raw.version

\* The same for the three grammars whose parser ends with the default
C14_DefaultWhereCoded ==
    (parse.pc = "parsed" /\ parse.grammar \in {"cmake", "meson", "pls"}) =>
      LET raw == RawParse(parse.grammar, parse.content) IN
      raw.name # "" =>
        /\ parse.pkg.name = raw.name
        /\ parse.pkg.version =
             IF raw.version = "" THEN "0.1.0" ELSE raw.version

\* The binary was looked for: add is past the choice between building and not
Located == add.pc \in {"build", "check", "stage", "pack", "done"} /\ add.bin_path # NoBinPath

BuildFailures == {Err("tool failed"), Err("build failed")}

\* The parts of C19 that are about what follows the build
C19_AfterBuild ==
    \* a build that fails ends the command, nothing staged, nothing written
    /\ (add.pc = "build" /\ add'.ret \in BuildFailures) =>
          add'.pc = "done" /\ staging' = staging /\ packagesDir' = packagesDir
    /\ add.pc = "build" => staging' = staging /\ packagesDir' = packagesDir
    \* the binary is not there once the build is over: NotFound
    /\ (add.pc = "check" /\ add.bin_path \notin project.bins) =>
          add'.ret = Err("binary not found") /\ add'.pc = "done"
    \* an archive is written only when the binary was there to be staged
    /\ packagesDir' # packagesDir =>
          /\ add.bin_path \in project.bins
          /\ add.pc = "pack"

\* C19 as stated: for any detected ecosystem the external build command is
\* invoked exactly when the conventional binary does not already exist; a
\* tool that cannot be started or exits non-zero aborts before anything is
\* staged; without the binary after the build the command fails NotFound; an
\* archive is written only when the binary existed at staging time.
C19_BuildIffMissing ==
    [][/\ (Located' /\ add'.pc # "build") =>
            (add'.invoked # <<>> <=> ~add'.existed)
       /\ C19_AfterBuild]_vars

\* C19 amended: for Cargo, CMake and Meson projects the build is invoked
\* exactly when the conventional binary does not already exist (for CMake:
\* unless the build directory cannot be created, which fails before any
\* command); for a pls.toml project no build command exists: none is ever
\* invoked and the binary named by the binary field must already be there;
\* the rest as stated.
C19_BuildIffMissingWhereBuilt ==
    [][/\ (Located' /\ add'.pc # "build") =>
            IF add'.ptype = "PlsToml" THEN add'.invoked = <<>>
            ELSE \/ add'.invoked # <<>> <=> ~add'.existed
                 \/ /\ add'.ptype = "CMake"
                    /\ add'.ret = Err("couldn't create build dir")
                    /\ add'.invoked = <<>> /\ ~add'.existed
       /\ C19_AfterBuild]_vars

\* C19 witness: the binary of a CMake project was missing, cmake and make
\* were run, the binary was there afterwards and the archive was written
C19_Witness ==
    /\ add.pc = "done" /\ add.ret = OkUnit
    /\ add.ptype = "CMake" /\ ~add.existed
    /\ add.invoked = <<"cmake", "make">>
    /\ add.pkg.name \in DOMAIN packagesDir

NoRegularFile(deb) ==
    \A d \in {deb.dirs.usr_bin, deb.dirs.usr_local_bin, deb.dirs.bin} :
      \A n \in DOMAIN d : ~d[n].regular

\* The foreign archive was fetched and both of its layers were extracted
Extracted(url, net) ==
    /\ url \in DOMAIN Web /\ Web[url].success
    /\ Web[url].body.ar /\ Web[url].body.dataTar # "none" /\ Web[url].body.tarOk

\* C16: when the extracted tree of a foreign archive has no regular file
\* under usr/bin, usr/local/bin or bin, download_deb fails with "no binaries
\* found" and the cache directory is as it was: the package archive of that
\* name is neither created nor modified.
C16_NoBinaries ==
    [][\A p \in Procs :
         (inv[p].pc = "resolve" /\ inv'[p].pc # "resolve" /\ inv'[p].calls.conv) =>
           LET url == inv[p].arg
               r == inv'[p].resolved
           IN /\ (Extracted(url, r) /\ NoRegularFile(Web[url].body)
                     /\ r.err # "network") =>
                   r = Err("no binaries found in .deb")
              /\ r = Err("no binaries found in .deb") =>
                   /\ cache' = cache
                   /\ Extracted(url, r) /\ NoRegularFile(Web[url].body)]_vars

\* C16 witness: the conversion failed for want of binaries while the cache
\* held an archive under the name the conversion would have written
C16_Witness ==
    \E p \in Procs :
      /\ inv[p].resolved = Err("no binaries found in .deb")
      /\ inv[p].arg = sUrlEmpty
      /\ DebPkgName(sUrlEmpty) \in DOMAIN cache
      /\ cache[DebPkgName(sUrlEmpty)] = ArchB1

\* The other of the two invocations
Other2(p) == CHOOSE q \in Procs : q # p

\* What the archive invocation p opened unpacks to
OwnTree(p) == TreeOf(ArchiveAt(inv[p].path))

\* Invocation p has opened a valid archive with a manifest and a bin/
OwnValid(p) ==
    /\ inv[p].cmd = "install" /\ inv[p].resolved.ok
    /\ inv[p].pc \notin {"idle", "resolve", "extract"}
    /\ ArchiveAt(inv[p].path).valid
    /\ OwnTree(p).info.exists /\ OwnTree(p).hasBin

\* Invocation p holds the manifest of an archive that is not its own
ForeignManifest(p) ==
    /\ inv[p].pc \in {"bin_dir", "copy", "db_dir", "db_info", "cleanup", "done"}
    /\ inv[p].ret.err \notin {"package seems broken, no info file found"}
    /\ inv[p].pkg # parse_info(OwnTree(p).info.lines)

\* A binary filed under the name of p's package is not the one of p's archive
ForeignBinary(p) ==
    /\ inv[p].pkg = parse_info(OwnTree(p).info.lines)
    /\ \E f \in DOMAIN usrBin :
         /\ usrBin[f].by = inv[p].pkg.name
         /\ \/ f \notin DOMAIN OwnTree(p).bin
            \/ ~OwnTree(p).bin[f].regular
            \/ usrBin[f].bytes # OwnTree(p).bin[f].bytes

\* Invocation p failed at a step that its own archive would have passed
FailedThoughValid(p) ==
    /\ inv[p].pc = "done"
    /\ inv[p].ret.err \in {"package seems broken, no info file found",
                           "couldn't read bin dir",
                           "couldn't save package info"}

Deviates(p) ==
    OwnValid(p) /\ (ForeignManifest(p) \/ ForeignBinary(p) \/ FailedThoughValid(p))

\* C17: an install of a valid archive takes its manifest and its binaries
\* from its own archive and does not fail after resolution for the archive's
\* sake as long as no other invocation has got past resolution; once another
\* one has, the shared scratch directory lets it deviate (C17_Witness).
C17_AloneFaithful ==
    \A p \in Procs :
      Deviates(p) => inv[Other2(p)].pc \notin {"idle", "resolve"}

\* C17 witness: two installs of different valid packages, and one of them
\* has recorded the store entry of the other's manifest and returned Ok
C17_Witness ==
    \E p \in Procs :
      LET q == Other2(p) IN
        /\ OwnValid(p) /\ OwnValid(q)
        /\ inv[p].arg # inv[q].arg
        /\ parse_info(OwnTree(p).info.lines).name # <<>>
        /\ parse_info(OwnTree(q).info.lines).name # <<>>
        /\ parse_info(OwnTree(p).info.lines) # parse_info(OwnTree(q).info.lines)
        /\ inv[p].pc = "done" /\ inv[p].ret = OkUnit
        /\ inv[p].pkg = parse_info(OwnTree(q).info.lines)
        /\ inv[p].pkg.name \in DOMAIN store
        /\ store[inv[p].pkg.name] = OwnTree(q).info

\* C17, second case: binaries of the other invocation's archive are filed
\* under this invocation's package
C17_WitnessBinary ==
    \E p \in Procs :
      /\ OwnValid(p) /\ OwnValid(Other2(p)) /\ inv[p].arg # inv[Other2(p)].arg
      /\ ForeignBinary(p) /\ inv[p].pc = "done" /\ inv[p].ret = OkUnit

\* C17, third case: the install fails although its own archive is valid
C17_WitnessFailure ==
    \E p \in Procs :
      /\ OwnValid(p) /\ OwnValid(Other2(p)) /\ inv[p].arg # inv[Other2(p)].arg
      /\ FailedThoughValid(p)

InstallPcs ==
    {"resolve", "extract", "read_info", "bin_dir", "copy", "db_dir", "db_info",
     "cleanup"}

\* The Local Package Store and the install root
StoreState == <<dbDir, store, rootInfo>>
RootState == <<usrBinDir, usrBin>>

\* The step of p at hand met the condition under which the code's step fails
StepFails(p) ==
    LET me == inv[p] IN
      \/ me.pc = "resolve" /\ ~inv'[p].resolved.ok
      \/ me.pc = "extract" /\ ~ArchiveAt(me.path).valid
      \/ me.pc = "read_info" /\ ~(temp.exists /\ temp.tree.info.exists)
      \/ me.pc = "bin_dir" /\ ~(temp.exists /\ temp.tree.hasBin)
      \/ /\ me.pc = "copy"
         /\ \E f \in me.todo \ inv'[p].todo :
              /\ temp.exists /\ temp.tree.hasBin /\ f \in DOMAIN temp.tree.bin
              /\ temp.tree.bin[f].regular
              /\ f \notin DOMAIN usrBin'
      \/ /\ me.pc = "db_info"
         /\ \/ ~(temp.exists /\ temp.tree.info.exists)
            \/ me.pkg.name # <<>> /\ me.pkg.name \notin DOMAIN store
            \/ me.pkg.name = <<>> /\ ~dbDir

\* cmd_install has returned an error: to main, or to the loop of a batch
ReturnedError(p) ==
    IF inv[p].cmd = "install"
    THEN inv'[p].pc = "done" /\ ~inv'[p].ret.ok
    ELSE /\ inv'[p].pc = "loop"
         /\ Len(inv'[p].log) = Len(inv[p].log) + 1
         /\ ~inv'[p].log[Len(inv'[p].log)].ok

\* C18: a step of cmd_install that fails returns the error and no later step
\* of that install runs; the steps up to and including manifest reading
\* leave the store and the install root as they are, and the steps up to and
\* including the copying of binaries leave the store as it is, so a failure
\* there finds them as they were before the call.
C18_AbortOnFirstError ==
    [][\A p \in Procs :
         (inv[p].pc \in InstallPcs /\ inv'[p] # inv[p]) =>
           /\ StepFails(p) => ReturnedError(p)
           /\ inv[p].pc \in {"resolve", "extract", "read_info"} =>
                StoreState' = StoreState /\ RootState' = RootState
           /\ inv[p].pc \in {"bin_dir", "copy"} => StoreState' = StoreState
           /\ inv[p].pc = "resolve" =>
                inv'[p].pc \in {"extract", "done", "loop"}
           /\ inv[p].pc = "extract" =>
                inv'[p].pc \in {"read_info", "done", "loop"}
           /\ inv[p].pc = "read_info" =>
                inv'[p].pc \in {"bin_dir", "done", "loop"}
           /\ inv[p].pc = "bin_dir" =>
                inv'[p].pc \in {"copy", "db_dir", "done", "loop"}
           /\ inv[p].pc = "copy" =>
                inv'[p].pc \in {"copy", "db_dir", "done", "loop"}]_vars

\* C18 witness: an install failed while copying, after it had put a binary
\* into the install root, and the store has no entry for the package
C18_Witness ==
    \E p \in Procs :
      /\ inv[p].cmd = "install" /\ inv[p].pc = "done"
      /\ inv[p].ret = Err("couldn't copy")
      /\ usrBinDir
      /\ \E f \in DOMAIN usrBin : usrBin[f].by = inv[p].pkg.name
      /\ inv[p].pkg.name \notin DOMAIN store
      /\ ~dbDir

\* C18, an earlier failure: the call ended in unpacking with the store and
\* the install root never touched
C18_WitnessEarly ==
    \E p \in Procs :
      /\ inv[p].cmd = "install" /\ inv[p].pc = "done"
      /\ inv[p].ret = Err("couldn't unpack that thing")
      /\ ~dbDir /\ ~usrBinDir

\* C20: an archive whose manifest yields an empty name is rejected when the
\* manifest is read, and no step of an install writes a manifest into the
\* root of the store or makes is_installed("") true.
C20_NonEmptyKey ==
    [][\A p \in Procs :
         (inv[p].pc \in InstallPcs /\ inv'[p] # inv[p]) =>
           /\ (/\ inv[p].pc = "read_info"
               /\ temp.exists /\ temp.tree.info.exists
               /\ parse_info(temp.tree.info.lines).name = <<>>) =>
                ReturnedError(p)
           /\ rootInfo' = rootInfo
           /\ is_installed(<<>>)' = is_installed(<<>>)]_vars

\* C20, the store alone: no manifest lies in the root of the store
C20_NoRootManifest == rootInfo = NoFile

\* C20, the query alone: the empty name is not reported as installed
C20_EmptyNameNotInstalled == ~is_installed(<<>>)

\* The names of the regular files in the scanned directories of a foreign
\* archive's tree
FoundNames(deb) ==
    UNION {DOMAIN RegularFiles(d) :
             d \in {deb.dirs.usr_bin, deb.dirs.usr_local_bin, deb.dirs.bin}}

\* C21: whenever download_deb succeeds, the archive it wrote to the cache has
\* at least one regular file under bin/, and every regular file found in
\* usr/bin, usr/local/bin or bin of the extracted tree is in that bin/.
C21_ConvertedHasBinaries ==
    [][\A p \in Procs :
         (/\ inv[p].pc = "resolve" /\ inv'[p].pc # "resolve"
          /\ inv'[p].calls.conv /\ inv'[p].resolved.ok) =>
           LET made == TreeOf(cache'[inv'[p].resolved.path.at])
               deb == Web[inv[p].arg].body
           IN /\ made.hasBin
              /\ \E f \in DOMAIN made.bin : made.bin[f].regular
              /\ \A f \in FoundNames(deb) :
                   f \in DOMAIN made.bin /\ made.bin[f].regular]_vars

\* C21, what the code does keep: a successful conversion found a regular file
\* in the scanned directories, and its archive has a bin/ and the manifest
\* of the derived name
C21_FoundSomething ==
    [][\A p \in Procs :
         (/\ inv[p].pc = "resolve" /\ inv'[p].pc # "resolve"
          /\ inv'[p].calls.conv /\ inv'[p].resolved.ok) =>
           LET made == TreeOf(cache'[inv'[p].resolved.path.at]) IN
             /\ FoundNames(Web[inv[p].arg].body) # {}
             /\ made.hasBin
             /\ parse_info(made.info.lines).name = DebPkgName(inv[p].arg)]_vars

\* The step at which an install of a name resolved through the index returns
\* Ok: to main, or to the loop of update or bundle
IndexInstallSucceeds(p) ==
    /\ inv[p].pc = "cleanup" /\ inv'[p].pc # "cleanup"
    /\ inv[p].calls.downloaded

\* C22: when cmd_install(n) returns Ok for a name n resolved through the
\* index, is_installed(n) is true.
C22_RequestedNameInstalled ==
    [][\A p \in Procs :
         IndexInstallSucceeds(p) => is_installed(inv[p].arg)']_vars

\* C22, the entry: the manifest recorded under the requested name is the one
\* of the archive that was just installed
C22_EntryIsTheInstalled ==
    [][\A p \in Procs :
         IndexInstallSucceeds(p) =>
           /\ inv[p].arg \in DOMAIN store'
           /\ store'[inv[p].arg].exists
           /\ parse_info(store'[inv[p].arg].lines) = inv[p].pkg]_vars

\* C22, what the code does keep: the entry is recorded under the name the
\* archive's manifest gives
C22_ManifestNameInstalled ==
    [][\A p \in Procs :
         (IndexInstallSucceeds(p) /\ inv[p].pkg.name # <<>>) =>
           /\ inv[p].pkg.name \in DOMAIN store'
           /\ store'[inv[p].pkg.name].exists
           /\ parse_info(store'[inv[p].pkg.name].lines) = inv[p].pkg]_vars

====
